---- MODULE Spec2Model ----
(***************************************************************************)
(* Model of entc: the generated sql decode routines (template             *)
(* dialect/sql/decode), the generate command of the entc binary, its      *)
(* idtype flag and its external template loader.                          *)
(***************************************************************************)
EXTENDS Integers, Sequences, FiniteSets, TLC

VARIABLES
    entity,     \* the Entity Descriptor the decode templates were executed for
    row,        \* the row the last single-record FromRows scanned
    dests,      \* destination list handed to the last rows.Scan call
    vscan,      \* the local scan struct after the last rows.Scan call
    rec,        \* the receiver of the last single-record FromRows
    err,        \* what the last single-record FromRows returned
    rows,       \* contents of the cursor given to the collection FromRows
    nread,      \* number of rows the cursor has handed out (rows.Next() = true)
    dst0,       \* the destination slice before the collection FromRows
    dst,        \* the destination slice
    ret,        \* Running, or what the collection FromRows returned
    flags,      \* command line of entc generate: --idtype, --storage, --target values
    nflag,      \* number of --idtype occurrences parsed so far
    idtype,     \* the idtype variable of the generate command
    setRes,     \* argument, previous value and result of the last idType.Set call
    cfg,        \* the gen.Config of the generate command
    pc,         \* position of the generate command
    steps,      \* the calls the generate command has made, in order
    failed,     \* the call that returned an error, or ""
    exitCode,   \* exit status of the process, -1 while it runs
    tpaths,     \* the template sources given to loadTemplate
    ti,         \* number of sources the loop of loadTemplate has gone through
    treg,       \* the templates associated with t, by name
    tpc         \* "loading", "returned", or "exit" after a failOnErr

decodeVars == <<entity, row, dests, vscan, rec, err, rows, nread, dst0, dst, ret>>

cmdVars == <<flags, nflag, idtype, setRes, cfg, pc, steps, failed, exitCode>>

tmplVars == <<tpaths, ti, treg, tpc>>

vars == <<decodeVars, cmdVars, tmplVars>>

----------------------------------------------------------------------------
(* Bounds of the model. *)

MaxFields == 2
MaxRows == 4
MaxFlags == 2
MaxStorage == 2
MaxEntries == 2

----------------------------------------------------------------------------
(* Entity descriptors. *)

\* The five identifier types the generate command can configure.
IDTypes == {"int", "int64", "uint", "uint64", "string"}

\* Fields a schema may declare: name, logical type, nillable flag.
FieldPool ==
    { [name |-> "payload",    type |-> "json", nillable |-> FALSE],
      [name |-> "meta",       type |-> "json", nillable |-> TRUE],
      [name |-> "deleted_at", type |-> "time", nillable |-> TRUE],
      [name |-> "created_at", type |-> "time", nillable |-> FALSE],
      [name |-> "score",      type |-> "int",  nillable |-> TRUE],
      [name |-> "age",        type |-> "int",  nillable |-> FALSE] }

\* gen.Funcs "pascal": snake_case field name to the exported Go identifier.
pascal(name) ==
    CASE name = "payload"    -> "Payload"
      [] name = "meta"       -> "Meta"
      [] name = "deleted_at" -> "DeletedAt"
      [] name = "created_at" -> "CreatedAt"
      [] name = "score"      -> "Score"
      [] name = "age"        -> "Age"

IsJSON(f) == f.type = "json"
IsTime(f) == f.type = "time"
IsString(t) == t = "string"

SeqsUpTo(S, n) == UNION { [1..k -> S] : k \in 0..n }

\* Field lists: declared order matters, names are unique within an entity.
FieldLists(n) ==
    { fs \in SeqsUpTo(FieldPool, n) :
        \A i, j \in 1..Len(fs) : i # j => fs[i].name # fs[j].name }

Entities == { [id |-> t, fields |-> fs] : t \in IDTypes, fs \in FieldLists(MaxFields) }

----------------------------------------------------------------------------
(* Rows of the cursor.  A column value is NULL or a value of the driver     *)
(* type of the column: "int", "bytes" or "time".                            *)

Null(t) == [null |-> TRUE, t |-> t, v |-> IF t = "int" THEN 0 ELSE ""]
Val(t, v) == [null |-> FALSE, t |-> t, v |-> v]

ZeroTime == "0001-01-01T00:00:00Z"

IDColumn == { Null("int"), Val("int", -3), Val("int", 42), Val("int", 100) }

FieldColumn(f) ==
    CASE f.type = "json" -> { Null("bytes"), Val("bytes", ""),
                              Val("bytes", "{\"a\":1}"), Val("bytes", "{") }
      [] f.type = "time" -> { Null("time"), Val("time", "2019-10-01T00:00:00Z") }
      [] f.type = "int"  -> { Null("int"), Val("int", 5), Val("int", -8) }

RECURSIVE RowsOver(_)
RowsOver(cols) ==
    IF Len(cols) = 0 THEN { <<>> }
    ELSE { <<c>> \o r : c \in Head(cols), r \in RowsOver(Tail(cols)) }

\* Rows in the column order of the package's Columns: id, then the fields.
RowSet(e) == RowsOver(<<IDColumn>> \o [i \in 1..Len(e.fields) |-> FieldColumn(e.fields[i])])

----------------------------------------------------------------------------
(* Library functions the generated code calls. *)

Digit(d) ==
    CASE d = 0 -> "0" [] d = 1 -> "1" [] d = 2 -> "2" [] d = 3 -> "3" [] d = 4 -> "4"
      [] d = 5 -> "5" [] d = 6 -> "6" [] d = 7 -> "7" [] d = 8 -> "8" [] d = 9 -> "9"

RECURSIVE Digits(_)
Digits(n) == IF n < 10 THEN Digit(n) ELSE Digits(n \div 10) \o Digit(n % 10)

\* strconv.Itoa: the decimal string of an integer.
Itoa(n) == IF n < 0 THEN "-" \o Digits(0 - n) ELSE Digits(n)

JSONZero == [a |-> 0]

\* json.Unmarshal(value, &target) on a non-empty buffer.
JSONUnmarshal(value, target) ==
    CASE value = "{\"a\":1}" -> [val |-> [a |-> 1], cause |-> ""]
      [] OTHER               -> [val |-> target, cause |-> "unexpected end of JSON input"]

\* database/sql convertAssign: one column value into one scan destination.
\* ok = FALSE is a Scan error.
ConvertAssign(destType, col) ==
    CASE destType \in {"int", "int64"} ->
            [ok |-> ~col.null /\ col.t = "int", v |-> IF col.t = "int" THEN col.v ELSE 0]
      [] destType \in {"uint", "uint64"} ->
            IF col.t = "int"
            THEN [ok |-> ~col.null /\ col.v >= 0, v |-> IF col.v >= 0 THEN col.v ELSE 0]
            ELSE [ok |-> FALSE, v |-> 0]
      [] destType = "[]byte" ->
            [ok |-> col.null \/ col.t = "bytes", v |-> IF col.t = "bytes" THEN col.v ELSE ""]
      [] destType = "time.Time" ->
            [ok |-> ~col.null /\ col.t = "time", v |-> IF col.t = "time" THEN col.v ELSE ZeroTime]
      [] destType = "sql.NullInt64" ->
            [ok |-> col.null \/ col.t = "int",
             v  |-> [Valid |-> ~col.null /\ col.t = "int",
                     Int64 |-> IF col.t = "int" THEN col.v ELSE 0]]

----------------------------------------------------------------------------
(* Template dialect/sql/decode/one: the generated single-record FromRows.  *)

\* Field.NullType: the type of the scan struct member of a field.  A time
\* member is a plain time.Time: the template assigns its address to the
\* *time.Time field of a nillable time.
NullType(f) ==
    CASE f.type = "json" -> "[]byte"
      [] f.type = "time" -> "time.Time"
      [] f.type = "int"  -> "sql.NullInt64"

\* Field.NullTypeField: the expression that unwraps a scanned member.
NullTypeField(f, scanned) == IF f.type = "int" THEN scanned.Int64 ELSE scanned

\* The local scan struct: member names in declaration order, with their types.
ScanStruct(e) ==
    <<[member |-> "ID", type |-> IF IsString(e.id) THEN "int" ELSE e.id]>>
    \o [i \in 1..Len(e.fields) |->
          [member |-> pascal(e.fields[i].name), type |-> NullType(e.fields[i])]]

ScanDestsReversed(e) ==
    <<"ID">> \o [i \in 1..Len(e.fields) |-> pascal(e.fields[Len(e.fields) + 1 - i].name)]

\* The argument list of the rows.Scan call, as struct member names.
ScanDests(e) == <<"ID">> \o [i \in 1..Len(e.fields) |-> pascal(e.fields[i].name)]

MemberType(e, m) == (CHOOSE s \in { ScanStruct(e)[i] : i \in 1..Len(ScanStruct(e)) } : s.member = m).type

NoErr == [kind |-> "nil", field |-> "", cause |-> ""]
ScanErr == [kind |-> "scan", field |-> "", cause |-> "sql: Scan error"]
UnmarshalErr(f, cause) == [kind |-> "unmarshal", field |-> f.name, cause |-> cause]

\* rows.Scan(dest...): column j is converted into destination j.
RowsScan(e, ds, r) ==
    IF Len(ds) # Len(r)
    THEN [ok |-> FALSE, v |-> [m \in {} |-> 0]]
    ELSE LET conv == [j \in 1..Len(ds) |-> ConvertAssign(MemberType(e, ds[j]), r[j])]
         IN  [ok |-> \A j \in 1..Len(ds) : conv[j].ok,
              v  |-> [m \in { ds[j] : j \in 1..Len(ds) } |->
                         conv[CHOOSE j \in 1..Len(ds) : ds[j] = m].v]]

\* The zero value of a record field, and of a freshly allocated record.
ZeroOf(f) ==
    CASE IsJSON(f)           -> JSONZero
      [] f.nillable /\ IsTime(f) -> [nil |-> TRUE, v |-> ZeroTime]
      [] f.nillable          -> [nil |-> TRUE, v |-> 0]
      [] IsTime(f)           -> ZeroTime
      [] OTHER               -> 0

NewRecord(e) ==
    [ID |-> IF IsString(e.id) THEN "" ELSE 0,
     F  |-> [m \in { pascal(e.fields[i].name) : i \in 1..Len(e.fields) } |->
               ZeroOf(CHOOSE f \in { e.fields[i] : i \in 1..Len(e.fields) } : pascal(f.name) = m)]]

\* string(int) yields the character of that code point, not the decimal string.
AssignIDRune(e, scanned) ==
    IF IsString(e.id)
    THEN CASE scanned = 42 -> "*" [] scanned = 100 -> "d" [] OTHER -> "\\uFFFD"
    ELSE scanned

\* The identifier assignment.
AssignID(e, scanned) == IF IsString(e.id) THEN Itoa(scanned) ELSE scanned

\* An empty buffer is handed to json.Unmarshal like any other.
AssignFieldUnmarshalEmpty(f, scanned, old) ==
    IF IsJSON(f)
    THEN LET u == JSONUnmarshal(scanned, old)
         IN  [v |-> u.val, err |-> IF u.cause # "" THEN UnmarshalErr(f, u.cause) ELSE NoErr]
    ELSE IF f.nillable
    THEN IF IsTime(f)
         THEN [v |-> [nil |-> FALSE, v |-> scanned], err |-> NoErr]
         ELSE IF scanned.Valid
              THEN [v |-> [nil |-> FALSE, v |-> NullTypeField(f, scanned)], err |-> NoErr]
              ELSE [v |-> old, err |-> NoErr]
    ELSE [v |-> NullTypeField(f, scanned), err |-> NoErr]

\* The Valid flag of the nullable wrapper is not consulted.
AssignFieldIgnoreValid(f, scanned, old) ==
    IF IsJSON(f)
    THEN IF Len(scanned) > 0
         THEN LET u == JSONUnmarshal(scanned, old)
              IN  [v |-> u.val,
                   err |-> IF u.cause # "" THEN UnmarshalErr(f, u.cause) ELSE NoErr]
         ELSE [v |-> old, err |-> NoErr]
    ELSE IF f.nillable
    THEN IF IsTime(f)
         THEN [v |-> [nil |-> FALSE, v |-> scanned], err |-> NoErr]
         ELSE [v |-> [nil |-> FALSE, v |-> NullTypeField(f, scanned)], err |-> NoErr]
    ELSE [v |-> NullTypeField(f, scanned), err |-> NoErr]

\* The assignment of one field: the new value of the record field and the error.
AssignField(f, scanned, old) ==
    IF IsJSON(f)
    THEN IF Len(scanned) > 0
         THEN LET u == JSONUnmarshal(scanned, old)
              IN  [v |-> u.val,
                   err |-> IF u.cause # "" THEN UnmarshalErr(f, u.cause) ELSE NoErr]
         ELSE [v |-> old, err |-> NoErr]
    ELSE IF f.nillable
    THEN IF IsTime(f)
         THEN [v |-> [nil |-> FALSE, v |-> scanned], err |-> NoErr]
         ELSE IF scanned.Valid
              THEN [v |-> [nil |-> FALSE, v |-> NullTypeField(f, scanned)], err |-> NoErr]
              ELSE [v |-> old, err |-> NoErr]
    ELSE [v |-> NullTypeField(f, scanned), err |-> NoErr]

\* The field assignments in declaration order, stopping at the first error.
RECURSIVE AssignFields(_, _, _, _)
AssignFields(e, sc, r, i) ==
    IF i > Len(e.fields)
    THEN [rec |-> r, err |-> NoErr]
    ELSE LET f == e.fields[i]
             m == pascal(f.name)
             a == AssignField(f, sc[m], r.F[m])
             r2 == [r EXCEPT !.F[m] = a.v]
         IN  IF a.err # NoErr
             THEN [rec |-> r2, err |-> a.err]
             ELSE AssignFields(e, sc, r2, i + 1)

\* FromRows on receiver r with the cursor positioned on row rw.
FromRows(e, r, rw) ==
    LET ds == ScanDests(e)
        s  == RowsScan(e, ds, rw)
    IN  IF ~s.ok
        THEN [dests |-> ds, vscan |-> s.v, rec |-> r, err |-> ScanErr]
        ELSE LET a == AssignFields(e, s.v, [r EXCEPT !.ID = AssignID(e, s.v["ID"])], 1)
             IN  [dests |-> ds, vscan |-> s.v, rec |-> a.rec, err |-> a.err]

----------------------------------------------------------------------------
(* loadTemplate: external template files and directories.                  *)

TplNames == { "a", "b" }
None == "<none>"

\* A template set with nothing associated: template.New("external").
NewTemplate == [n \in TplNames \cup { "external" } |-> None]

\* A template file: the body each {{ define }} of the file gives a name.
File(defs) == [kind |-> "file", defs |-> defs, entries |-> <<>>]
\* A directory: its entries in the order ioutil.ReadDir lists them.
Dir(entries) == [kind |-> "dir", defs |-> [n \in TplNames |-> None], entries |-> entries]
\* A path that does not exist.
Missing == [kind |-> "missing", defs |-> [n \in TplNames |-> None], entries |-> <<>>]

Files ==
    { File([a |-> "a1", b |-> None]),
      File([a |-> "a2", b |-> None]),
      File([a |-> None, b |-> "b1"]) }

SubDirs == { Dir(<<File([a |-> None, b |-> "b1"])>>), Dir(<<File([a |-> "a2", b |-> None])>>) }

Dirs == { Dir(es) : es \in SeqsUpTo(Files \cup SubDirs, MaxEntries) }

Sources == Files \cup Dirs \cup { Missing }

\* Template.AddParseTree: the tree is associated with the name, except that
\* an empty tree does not replace a template that is already there.
AddParseTree(t, name, tree) ==
    IF t[name] # None /\ tree = "" THEN t ELSE [t EXCEPT ![name] = tree]

RECURSIVE AddAll(_, _, _)
AddAll(t, names, trees) ==
    IF names = {} THEN t
    ELSE LET n == CHOOSE x \in names : TRUE
         IN  AddAll(AddParseTree(t, n, trees[n]), names \ { n }, trees)

\* Template.Parse of a file of definitions: every definition is associated
\* with its name, and the empty top-level text with the template itself.
Parse(t, defs) ==
    AddAll(AddParseTree(t, "external", ""), { n \in TplNames : defs[n] # None }, defs)

\* Template.Templates: the names associated with t.
Templates(t) == { n \in DOMAIN t : t[n] # None }

\* The paths built for a directory: one per entry, each joined from the
\* directory and the name of infos[0].
DirPaths(infos) == [i \in 1..Len(infos) |-> infos[1]]

\* loadTemplate(paths), and one iteration of its loop on template set t.
\* ok = FALSE is a failOnErr that exits the process.
RECURSIVE loadTemplate(_)
LoadPath(t, path) ==
    IF path.kind = "missing"
    THEN [ok |-> FALSE, t |-> t]
    ELSE IF path.kind = "file"
    THEN [ok |-> TRUE, t |-> Parse(t, path.defs)]
    ELSE LET sub == loadTemplate(DirPaths(path.entries))
         IN  IF ~sub.ok
             THEN [ok |-> FALSE, t |-> t]
             ELSE [ok |-> TRUE, t |-> AddAll(t, Templates(sub.t), sub.t)]

RECURSIVE LoadFrom(_, _)
LoadFrom(t, paths) ==
    IF Len(paths) = 0 THEN [ok |-> TRUE, t |-> t]
    ELSE LET r == LoadPath(t, Head(paths))
         IN  IF r.ok THEN LoadFrom(r.t, Tail(paths)) ELSE r

loadTemplate(paths) == LoadFrom(NewTemplate, paths)

\* loadTemplate is not running.
TmplIdle ==
    /\ tpaths = <<>>
    /\ ti = 0
    /\ treg = NewTemplate
    /\ tpc = "loading"

\* One iteration of the loop over the given paths.
LoadNext ==
    /\ tpc = "loading"
    /\ ti < Len(tpaths)
    /\ LET r == LoadPath(treg, tpaths[ti + 1])
       IN  /\ ti' = ti + 1
           /\ treg' = r.t
           /\ tpc' = IF r.ok THEN tpc ELSE "exit"
    /\ UNCHANGED <<tpaths, decodeVars, cmdVars>>

\* return t
LoadReturn ==
    /\ tpc = "loading"
    /\ ti = Len(tpaths)
    /\ tpc' = "returned"
    /\ UNCHANGED <<tpaths, ti, treg, decodeVars, cmdVars>>

\* The generate command before it is run.
CmdIdle ==
    /\ flags = [idtype |-> <<>>, storage |-> <<>>, target |-> "", template |-> <<>>]
    /\ nflag = 0
    /\ idtype = "TypeInt"
    /\ setRes = [arg |-> "", prev |-> "TypeInt", err |-> "", called |-> FALSE]
    /\ cfg = [Target |-> "", Storage |-> <<>>, Template |-> "", IDType |-> ""]
    /\ pc = "flags"
    /\ steps = <<>>
    /\ failed = ""
    /\ exitCode = -1

----------------------------------------------------------------------------
(* Template dialect/sql/decode/many: the generated collection FromRows.    *)

Running == [kind |-> "running", field |-> "", cause |-> ""]

\* Entities the collection decode is exercised on.
ManyEntities == { e \in Entities : Len(e.fields) <= 1 /\ e.id \in {"int", "string"} }

\* Rows the cursors of the collection decode hold.
ManyRowSet(e) ==
    { r \in RowSet(e) :
        /\ r[1] \in { Null("int"), Val("int", 42) }
        /\ \A i \in 2..Len(r) : ~r[i].null /\ (r[i].t = "bytes" => r[i].v # "") }

\* The destination slice may already hold records.
PriorSlices(e) == { <<>>, <<[NewRecord(e) EXCEPT !.ID = AssignID(e, 7)]>> }

\* A failed decode skips the row and the loop goes on.
ManyNextContinue ==
    /\ ret = Running
    /\ nread < Len(rows)
    /\ LET rw == rows[nread + 1]
           r  == FromRows(entity, NewRecord(entity), rw)
       IN  /\ nread' = nread + 1
           /\ row' = rw
           /\ dests' = r.dests
           /\ vscan' = r.vscan
           /\ rec' = r.rec
           /\ err' = r.err
           /\ ret' = ret
           /\ dst' = IF r.err # NoErr THEN dst ELSE Append(dst, r.rec)
    /\ UNCHANGED <<entity, rows, dst0, cmdVars, tmplVars>>

\* The record is appended before the decode error is looked at.
ManyNextAppendFirst ==
    /\ ret = Running
    /\ nread < Len(rows)
    /\ LET rw == rows[nread + 1]
           r  == FromRows(entity, NewRecord(entity), rw)
       IN  /\ nread' = nread + 1
           /\ row' = rw
           /\ dests' = r.dests
           /\ vscan' = r.vscan
           /\ rec' = r.rec
           /\ err' = r.err
           /\ ret' = IF r.err # NoErr THEN r.err ELSE ret
           /\ dst' = Append(dst, r.rec)
    /\ UNCHANGED <<entity, rows, dst0, cmdVars, tmplVars>>

\* One iteration of the loop: rows.Next() reports a row, a new record is
\* decoded from it and appended, or the decode error is returned.
ManyNext ==
    /\ ret = Running
    /\ nread < Len(rows)
    /\ LET rw == rows[nread + 1]
           r  == FromRows(entity, NewRecord(entity), rw)
       IN  /\ nread' = nread + 1
           /\ row' = rw
           /\ dests' = r.dests
           /\ vscan' = r.vscan
           /\ rec' = r.rec
           /\ err' = r.err
           /\ IF r.err # NoErr
              THEN /\ ret' = r.err
                   /\ dst' = dst
              ELSE /\ ret' = ret
                   /\ dst' = Append(dst, r.rec)
    /\ UNCHANGED <<entity, rows, dst0, cmdVars, tmplVars>>

\* rows.Next() reports no row: the loop ends and nil is returned (rows.Err()
\* is not consulted).
ManyReturn ==
    /\ ret = Running
    /\ nread = Len(rows)
    /\ ret' = NoErr
    /\ UNCHANGED <<entity, row, dests, vscan, rec, err, rows, nread, dst0, dst, cmdVars, tmplVars>>

\* The single-record FromRows, called once on a new record with the cursor
\* positioned on any row.
One ==
    /\ dests = <<>>
    /\ \E rw \in RowSet(entity) :
         LET r == FromRows(entity, NewRecord(entity), rw)
         IN  /\ row' = rw
             /\ dests' = r.dests
             /\ vscan' = r.vscan
             /\ rec' = r.rec
             /\ err' = r.err
    /\ UNCHANGED <<entity, rows, nread, dst0, dst, ret, cmdVars, tmplVars>>

InitOne ==
    /\ entity \in Entities
    /\ row = <<>>
    /\ dests = <<>>
    /\ vscan = <<>>
    /\ rec = NewRecord(entity)
    /\ err = NoErr
    /\ rows = <<>>
    /\ nread = 0
    /\ dst0 = <<>>
    /\ dst = <<>>
    /\ ret = Running
    /\ CmdIdle
    /\ TmplIdle

InitMany ==
    /\ entity \in ManyEntities
    /\ row = <<>>
    /\ dests = <<>>
    /\ vscan = <<>>
    /\ rec = NewRecord(entity)
    /\ err = NoErr
    /\ rows \in SeqsUpTo(ManyRowSet(entity), MaxRows)
    /\ nread = 0
    /\ dst0 \in PriorSlices(entity)
    /\ dst = dst0
    /\ ret = Running
    /\ CmdIdle
    /\ TmplIdle

NextOne == One
NextMany == ManyNext \/ ManyReturn

SpecOne == InitOne /\ [][NextOne]_vars
SpecMany == InitMany /\ [][NextMany]_vars

----------------------------------------------------------------------------
(* The generate command of entc and its --idtype flag.                     *)

\* No decode routine runs while the command does.
DecodeIdle ==
    /\ entity = [id |-> "int", fields |-> <<>>]
    /\ row = <<>>
    /\ dests = <<>>
    /\ vscan = <<>>
    /\ rec = NewRecord(entity)
    /\ err = NoErr
    /\ rows = <<>>
    /\ nread = 0
    /\ dst0 = <<>>
    /\ dst = <<>>
    /\ ret = Running

\* field.Type.String: the name of a field type.  The identifier types are
\* named as the configuration names them: TypeInt is the signed 32-bit
\* integer int32, TypeUint the unsigned 32-bit integer uint32.
String(t) ==
    CASE t = "TypeInvalid" -> "invalid"
      [] t = "TypeBool"    -> "bool"
      [] t = "TypeString"  -> "string"
      [] t = "TypeInt"     -> "int32"
      [] t = "TypeInt64"   -> "int64"
      [] t = "TypeUint"    -> "uint32"
      [] t = "TypeUint64"  -> "uint64"

\* A copy-and-paste slip: the uint64 case stores the type of the uint case.
SetUint64AsUint(t, s) ==
    CASE s = String("TypeInt")    -> [t |-> "TypeInt",    err |-> ""]
      [] s = String("TypeInt64")  -> [t |-> "TypeInt64",  err |-> ""]
      [] s = String("TypeUint")   -> [t |-> "TypeUint",   err |-> ""]
      [] s = String("TypeUint64") -> [t |-> "TypeUint",   err |-> ""]
      [] s = String("TypeString") -> [t |-> "TypeString", err |-> ""]
      [] OTHER                    -> [t |-> t,            err |-> "invalid type"]

\* idType.Set on a flag variable holding t: the new value and the error.
Set(t, s) ==
    CASE s = String("TypeInt")    -> [t |-> "TypeInt",    err |-> ""]
      [] s = String("TypeInt64")  -> [t |-> "TypeInt64",  err |-> ""]
      [] s = String("TypeUint")   -> [t |-> "TypeUint",   err |-> ""]
      [] s = String("TypeUint64") -> [t |-> "TypeUint64", err |-> ""]
      [] s = String("TypeString") -> [t |-> "TypeString", err |-> ""]
      [] OTHER                    -> [t |-> t,            err |-> "invalid type"]

\* Values given to --idtype and to --storage on the command line.
IDTypeArgs == { "int32", "int64", "uint32", "uint64", "string", "bool", "float64" }
StorageArgs == { "sql", "nosql" }

\* Values given to --template: no source, a template file, a missing path.
TemplateArgs == { <<>>, <<File([a |-> "a1", b |-> None])>>, <<Missing>> }

\* gen.NewStorage: whether a storage driver of that name exists.
NewStorage(s) == s \in { "sql", "gremlin" }

\* failOnErr(err) with a non-nil error: the message is printed and the
\* process exits with status 1.
FailOnErr(step) ==
    /\ failed' = step
    /\ pc' = "exit"
    /\ exitCode' = 1

\* The flag set hands one --idtype value to idType.Set.  An error ends
\* cmd.Execute(), whose result main discards before it returns.
ParseIDType ==
    /\ pc = "flags"
    /\ nflag < Len(flags.idtype)
    /\ LET s == flags.idtype[nflag + 1]
           r == Set(idtype, s)
       IN  /\ idtype' = r.t
           /\ setRes' = [arg |-> s, prev |-> idtype, err |-> r.err, called |-> TRUE]
           /\ nflag' = nflag + 1
           /\ steps' = Append(steps, "Set")
           /\ IF r.err # ""
              THEN /\ failed' = "Set"
                   /\ pc' = "exit"
                   /\ exitCode' = 0
              ELSE UNCHANGED <<failed, pc, exitCode>>
    /\ UNCHANGED <<flags, cfg, decodeVars, tmplVars>>

\* The flag set stores the --target value into cfg.Target.  The flag may
\* stand anywhere among the --idtype values.
ParseTarget ==
    /\ pc = "flags"
    /\ flags.target # ""
    /\ cfg.Target = ""
    /\ cfg' = [cfg EXCEPT !.Target = flags.target]
    /\ UNCHANGED <<flags, nflag, idtype, setRes, steps, failed, exitCode,
                   pc, decodeVars, tmplVars>>

\* Run starts when every flag is parsed.  Its first statement: without a
\* target the target directory is the parent of the absolute schema path.
RunTarget ==
    /\ pc = "flags"
    /\ nflag = Len(flags.idtype)
    /\ flags.target # "" => cfg.Target = flags.target
    /\ IF cfg.Target # ""
       THEN /\ pc' = "storage"
            /\ UNCHANGED <<cfg, steps, failed, exitCode>>
       ELSE /\ steps' = Append(steps, "Abs")
            /\ \/ /\ cfg' = [cfg EXCEPT !.Target = "ent"]
                  /\ pc' = "storage"
                  /\ UNCHANGED <<failed, exitCode>>
               \/ /\ FailOnErr("Abs")
                  /\ cfg' = cfg
    /\ UNCHANGED <<flags, nflag, idtype, setRes, decodeVars, tmplVars>>

\* One iteration of the storage loop.
RunStorage ==
    /\ pc = "storage"
    /\ Len(cfg.Storage) < Len(flags.storage)
    /\ LET s == flags.storage[Len(cfg.Storage) + 1]
       IN  /\ steps' = Append(steps, "NewStorage")
           /\ IF NewStorage(s)
              THEN /\ cfg' = [cfg EXCEPT !.Storage = Append(@, s)]
                   /\ UNCHANGED <<failed, pc, exitCode>>
              ELSE /\ FailOnErr("NewStorage")
                   /\ cfg' = cfg
    /\ UNCHANGED <<flags, nflag, idtype, setRes, decodeVars, tmplVars>>

\* After the storage loop: the external templates, if any were given.  A
\* failOnErr inside loadTemplate exits the process.
RunTemplate ==
    /\ pc = "storage"
    /\ Len(cfg.Storage) = Len(flags.storage)
    /\ IF Len(flags.template) = 0
       THEN /\ pc' = "loadGraph"
            /\ UNCHANGED <<cfg, steps, failed, exitCode>>
       ELSE /\ steps' = Append(steps, "loadTemplate")
            /\ IF loadTemplate(flags.template).ok
               THEN /\ cfg' = [cfg EXCEPT !.Template = "external"]
                    /\ pc' = "loadGraph"
                    /\ UNCHANGED <<failed, exitCode>>
               ELSE /\ FailOnErr("loadTemplate")
                    /\ cfg' = cfg
    /\ UNCHANGED <<flags, nflag, idtype, setRes, decodeVars, tmplVars>>

\* The identifier type goes into the config and the schema is loaded.
RunLoadGraph ==
    /\ pc = "loadGraph"
    /\ cfg' = [cfg EXCEPT !.IDType = idtype]
    /\ steps' = Append(steps, "loadGraph")
    /\ \/ /\ pc' = "gen"
          /\ UNCHANGED <<failed, exitCode>>
       \/ FailOnErr("loadGraph")
    /\ UNCHANGED <<flags, nflag, idtype, setRes, decodeVars, tmplVars>>

\* graph.Gen, the last statement of Run.
RunGen ==
    /\ pc = "gen"
    /\ steps' = Append(steps, "Gen")
    /\ \/ /\ pc' = "exit"
          /\ exitCode' = 0
          /\ failed' = failed
       \/ FailOnErr("Gen")
    /\ UNCHANGED <<flags, nflag, idtype, setRes, cfg, decodeVars, tmplVars>>

InitGenerate ==
    /\ DecodeIdle
    /\ TmplIdle
    /\ flags \in [idtype : SeqsUpTo(IDTypeArgs, MaxFlags),
                  storage : SeqsUpTo(StorageArgs, MaxStorage),
                  target : { "", "out" },
                  template : TemplateArgs]
    /\ nflag = 0
    /\ idtype = "TypeInt"
    /\ setRes = [arg |-> "", prev |-> "TypeInt", err |-> "", called |-> FALSE]
    /\ cfg = [Target |-> "", Storage |-> <<>>, Template |-> "", IDType |-> ""]
    /\ pc = "flags"
    /\ steps = <<>>
    /\ failed = ""
    /\ exitCode = -1

NextGenerate ==
    ParseIDType \/ ParseTarget \/ RunTarget \/ RunStorage \/ RunTemplate \/ RunLoadGraph \/ RunGen

SpecGenerate == InitGenerate /\ [][NextGenerate]_vars

\* The identifier types of the closed set, by the name of each: signed 32-bit
\* and 64-bit integer, unsigned 32-bit and 64-bit integer, string.
ClosedSetNames ==
    [ int32 |-> "TypeInt", int64 |-> "TypeInt64", uint32 |-> "TypeUint",
      uint64 |-> "TypeUint64", string |-> "TypeString" ]

\* C6: before any Set the flag holds the default, the signed 32-bit integer
\* type; a Set with one of the five names int32, int64, uint32, uint64,
\* string stores the identifier type of that name and returns no error; a
\* Set with any other argument returns an error and leaves the stored type
\* as it was.
IDTypeSet ==
    /\ ~setRes.called => idtype = ClosedSetNames["int32"]
    /\ setRes.called =>
          IF setRes.arg \in DOMAIN ClosedSetNames
          THEN /\ setRes.err = ""
               /\ idtype = ClosedSetNames[setRes.arg]
          ELSE /\ setRes.err = "invalid type"
               /\ idtype = setRes.prev

IDTypeSetWitness ==
    /\ nflag = 2
    /\ flags.idtype = <<"uint64", "bool">>
    /\ setRes.prev = "TypeUint64"
    /\ setRes.err = "invalid type"
    /\ idtype = "TypeUint64"

Has(step) == \E i \in 1..Len(steps) : steps[i] = step

Rank(step) ==
    CASE step = "Set" -> 0
      [] step = "Abs" -> 1
      [] step = "NewStorage" -> 2
      [] step = "loadTemplate" -> 3
      [] step = "loadGraph" -> 4
      [] step = "Gen" -> 5

\* C9: the generate command is fail-fast and ordered: a rejected identifier
\* type ends the command before any schema loading; graph.Gen is called only
\* after every requested storage driver, every template source and loadGraph
\* succeeded; the first failure, the rejected identifier type included, is
\* the last step made and ends the run with a non-zero exit.
GenerateFailFast ==
    /\ \A i, j \in 1..Len(steps) : i < j => Rank(steps[i]) <= Rank(steps[j])
    /\ setRes.err # "" =>
          /\ failed = "Set"
          /\ ~Has("loadGraph")
          /\ cfg.Target \in { "", flags.target }
          /\ cfg.Storage = <<>> /\ cfg.Template = "" /\ cfg.IDType = ""
    /\ Has("Gen") =>
          /\ cfg.Target # ""
          /\ cfg.Storage = flags.storage
          /\ \A i \in 1..Len(flags.storage) : NewStorage(flags.storage[i])
          /\ Len(flags.template) > 0 =>
                (Has("loadTemplate") /\ loadTemplate(flags.template).ok
                   /\ cfg.Template = "external")
          /\ Len(steps) >= 2
          /\ steps[Len(steps)] = "Gen"
          /\ steps[Len(steps) - 1] = "loadGraph"
          /\ cfg.IDType = idtype
          /\ failed \in { "", "Gen" }
    /\ failed # "" =>
          /\ pc = "exit"
          /\ steps[Len(steps)] = failed
          /\ exitCode # 0
    /\ (pc = "exit" /\ failed = "") => (Has("Gen") /\ exitCode = 0)

InitTemplate ==
    /\ DecodeIdle
    /\ CmdIdle
    /\ tpaths \in { <<p>> : p \in Sources } \cup { <<p, q>> : p \in Sources, q \in Sources }
    /\ ti = 0
    /\ treg = NewTemplate
    /\ tpc = "loading"

NextTemplate == LoadNext \/ LoadReturn

SpecTemplate == InitTemplate /\ [][NextTemplate]_vars

----------------------------------------------------------------------------
(* Properties of the single-record decode, checked under SpecOne.          *)

Called == dests # <<>>
Scanned == Called /\ err.kind # "scan"

\* The buffer scanned for JSON field i does not parse.
Unparsable(i) == IsJSON(entity.fields[i]) /\ row[i + 1].v = "{"

\* The assignments reach field i: no earlier field made FromRows return.
Reached(i) == \A j \in 1..(i - 1) : ~Unparsable(j)

\* C1: the scan call of FromRows has exactly 1 + len(fields) destinations,
\* the identifier first and then one per field in declared order, so that
\* every column lands in the scan member of its own field.
ScanOrder ==
    Called =>
        /\ Len(dests) = 1 + Len(entity.fields)
        /\ dests[1] = "ID"
        /\ \A i \in 1..Len(entity.fields) : dests[i + 1] = pascal(entity.fields[i].name)
        /\ Scanned =>
              /\ vscan["ID"] = row[1].v
              /\ \A i \in 1..Len(entity.fields) :
                    LET f == entity.fields[i]
                        c == row[i + 1]
                    IN  IF f.type = "int"
                        THEN vscan[pascal(f.name)] = [Valid |-> ~c.null, Int64 |-> c.v]
                        ELSE vscan[pascal(f.name)] = c.v

ScanOrderWitness ==
    /\ Called
    /\ err = NoErr
    /\ Len(entity.fields) = 2
    /\ entity.fields[1].name = "score"
    /\ entity.fields[2].name = "payload"
    /\ dests = <<"ID", "Score", "Payload">>

\* C3: a JSON field, nillable or not, stays at its zero value without error
\* when the scanned buffer is empty; a non-empty buffer that does not parse
\* makes FromRows return an error naming the field and carrying the parse
\* failure; a buffer that parses leaves the parsed value in the field.
JSONDecode ==
    Scanned =>
        /\ \A i \in 1..Len(entity.fields) :
              LET f == entity.fields[i]
              IN  IsJSON(f) =>
                    /\ row[i + 1].v = "" =>
                          /\ rec.F[pascal(f.name)] = JSONZero
                          /\ err.field # f.name
                    /\ (Reached(i) /\ row[i + 1].v = "{") =>
                          err = [kind |-> "unmarshal", field |-> f.name,
                                 cause |-> "unexpected end of JSON input"]
                    /\ (Reached(i) /\ row[i + 1].v = "{\"a\":1}") =>
                          rec.F[pascal(f.name)] = [a |-> 1]
        /\ (\A i \in 1..Len(entity.fields) : ~Unparsable(i)) => err = NoErr

JSONDecodeWitness ==
    /\ Scanned
    /\ Len(entity.fields) = 2
    /\ entity.fields[1].name = "payload"
    /\ entity.fields[2].name = "meta"
    /\ row[2].v = ""
    /\ row[3].v = "{"
    /\ rec.F["Payload"] = JSONZero
    /\ err.kind = "unmarshal"
    /\ err.field = "meta"

\* C4: a nillable field that is neither JSON nor time stays nil when the
\* scanned wrapper holds no value, and otherwise points to exactly the
\* wrapper's value.
NillableCopy ==
    Scanned =>
        \A i \in 1..Len(entity.fields) :
            LET f == entity.fields[i]
                c == row[i + 1]
            IN  (f.nillable /\ ~IsJSON(f) /\ ~IsTime(f) /\ Reached(i)) =>
                    IF c.null
                    THEN rec.F[pascal(f.name)].nil
                    ELSE rec.F[pascal(f.name)] = [nil |-> FALSE, v |-> c.v]

NillableCopyWitness ==
    /\ Scanned
    /\ Len(entity.fields) = 2
    /\ entity.fields[2].name = "score"
    /\ ~row[3].null
    /\ row[3].v = -8
    /\ rec.F["Score"] = [nil |-> FALSE, v |-> -8]

Decimal == (-3 :> "-3") @@ (42 :> "42") @@ (100 :> "100")

\* C5: with a string identifier type the identifier column is scanned as an
\* integer and the identifier is its decimal string; with any other
\* identifier type the identifier is the scanned value.
IDConversion ==
    Scanned =>
        /\ vscan["ID"] = row[1].v
        /\ IF entity.id = "string"
           THEN rec.ID = Decimal[row[1].v]
           ELSE rec.ID = row[1].v

IDConversionWitness ==
    /\ Scanned
    /\ entity.id = "string"
    /\ row[1].v = 42
    /\ rec.ID = "42"

----------------------------------------------------------------------------
(* Properties of the collection decode, checked under SpecMany.            *)

\* What the single-record decode of the i-th row of the cursor returns.
RowErr(i) == FromRows(entity, NewRecord(entity), rows[i]).err

\* The records of the rows among the first n that decode, in cursor order.
RECURSIVE Decoded(_)
Decoded(n) ==
    IF n = 0 THEN <<>>
    ELSE LET r == FromRows(entity, NewRecord(entity), rows[n])
         IN  IF r.err = NoErr THEN Append(Decoded(n - 1), r.rec) ELSE Decoded(n - 1)

\* C2: a row whose single-record decode fails ends the collection decode:
\* that failure is what is returned, the failing record is not appended and
\* the failing row is the last row read from the cursor.
ManyAbort ==
    \A i \in 1..nread :
        RowErr(i) # NoErr =>
            /\ i = nread
            /\ ret = RowErr(i)
            /\ Len(dst) = Len(dst0) + (i - 1)

ManyAbortWitness ==
    /\ Len(rows) = 4
    /\ nread = 3
    /\ ret.kind = "unmarshal"
    /\ dst0 # <<>>
    /\ Len(dst) = Len(dst0) + 2

\* C10: when the collection decode has returned, the destination is what it
\* was before the call followed by the records of the rows that decoded, in
\* cursor order; on success there is one record per row of the cursor, and
\* an empty cursor leaves the destination as it was.
ManyAppends ==
    ret # Running =>
        /\ dst = dst0 \o Decoded(nread)
        /\ ret = NoErr => (nread = Len(rows) /\ Len(dst) = Len(dst0) + Len(rows))
        /\ rows = <<>> => dst = dst0

ManyAppendsWitness ==
    /\ ret = NoErr
    /\ Len(rows) = 3
    /\ dst0 # <<>>
    /\ Len(dst) = 4
    /\ dst[4].ID = AssignID(entity, rows[3][1].v)

----------------------------------------------------------------------------
(* Properties of loadTemplate, checked under SpecTemplate.                 *)

\* The bodies that a source gives template name n: the definition of a file,
\* the definitions of the files directly inside a directory.
SourceDefs(src, n) ==
    IF src.kind = "file"
    THEN { src.defs[n] } \ { None }
    ELSE { src.entries[i].defs[n] :
             i \in { j \in 1..Len(src.entries) : src.entries[j].kind = "file" } } \ { None }

\* C7: when both of two template sources define a template name, the
\* returned template set maps the name to the definition of the second
\* source, for files and for directories.
TemplateOverride ==
    (tpc = "returned" /\ Len(tpaths) = 2) =>
        \A n \in TplNames :
            (SourceDefs(tpaths[1], n) # {} /\ SourceDefs(tpaths[2], n) # {}) =>
                treg[n] \in SourceDefs(tpaths[2], n)

\* C8: loading a directory merges the definitions of every file directly
\* inside it, and nothing of its sub-directories.
DirectoryMerge ==
    (tpc = "returned" /\ Len(tpaths) = 1 /\ tpaths[1].kind = "dir") =>
        \A n \in TplNames :
            /\ SourceDefs(tpaths[1], n) # {} => treg[n] \in SourceDefs(tpaths[1], n)
            /\ SourceDefs(tpaths[1], n) = {} => treg[n] = None

====
